---- MODULE Spec2Model ----
(***************************************************************************)
(* tablr: read a JSON or CSV table, optionally keep only some columns,     *)
(* optionally run one SQL query on it, and print it as an aligned table.   *)
(*                                                                         *)
(* Text is a sequence of one-character strings.  A Python value is a       *)
(* tagged record: None, bool, int, str, list or dict (dict keys are text). *)
(***************************************************************************)
EXTENDS Integers, Sequences, FiniteSets, TLC

\* ------------------------------------------------------------ Python values

PyNone == [t |-> "None"]
PyBool(b) == [t |-> "bool", b |-> b]
PyInt(n) == [t |-> "int", n |-> n]
PyStr(s) == [t |-> "str", s |-> s]
PyList(items) == [t |-> "list", items |-> items]
PyDict(m) == [t |-> "dict", m |-> m]

EmptyMap == [k \in {} |-> PyNone]

\* The key None, which csv.DictReader uses for the fields beyond the header.
NoneKey == <<"None">>

Digits == <<"0", "1", "2", "3", "4", "5", "6", "7", "8", "9">>

IsDigit(c) == \E d \in 1..10 : Digits[d] = c

DigitValue(c) == (CHOOSE d \in 1..10 : Digits[d] = c) - 1

RECURSIVE NatText(_)
NatText(n) == IF n < 10 THEN <<Digits[n + 1]>>
              ELSE NatText(n \div 10) \o <<Digits[(n % 10) + 1]>>

IntText(n) == IF n < 0 THEN <<"-">> \o NatText(-n) ELSE NatText(n)

RECURSIVE JoinTexts(_, _)
JoinTexts(texts, sep) ==
    IF texts = <<>> THEN <<>>
    ELSE IF Len(texts) = 1 THEN texts[1]
    ELSE texts[1] \o sep \o JoinTexts(Tail(texts), sep)

\* repr() of a value inside a list: a str is shown in single quotes.
RECURSIVE PyRepr(_)
PyRepr(v) ==
    CASE v.t = "None" -> <<"N", "o", "n", "e">>
      [] v.t = "bool" -> IF v.b THEN <<"T", "r", "u", "e">>
                         ELSE <<"F", "a", "l", "s", "e">>
      [] v.t = "int" -> IntText(v.n)
      [] v.t = "str" -> <<"'">> \o v.s \o <<"'">>
      [] v.t = "list" ->
            <<"[">> \o JoinTexts([i \in 1..Len(v.items) |-> PyRepr(v.items[i])],
                                 <<",", " ">>) \o <<"]">>

\* str(value), for the values a row can hold (no dict is a row's field here).
PyStrOf(v) == IF v.t = "str" THEN v.s ELSE PyRepr(v)

\* ------------------------------------------------------------ json.loads

JsonFail == [ok |-> FALSE, v |-> PyNone, i |-> 0]

JsonOk(v, i) == [ok |-> TRUE, v |-> v, i |-> i]

RECURSIVE SkipWs(_, _)
SkipWs(s, i) == IF i <= Len(s) /\ s[i] \in {" ", "\n"} THEN SkipWs(s, i + 1) ELSE i

\* Whether the text `word` stands in s at position i.
HasWord(s, i, word) ==
    /\ i + Len(word) - 1 <= Len(s)
    /\ \A k \in 1..Len(word) : s[i + k - 1] = word[k]

\* The closing quote of the string whose first character is at i (0: none).
RECURSIVE StringEnd(_, _)
StringEnd(s, i) ==
    IF i > Len(s) \/ s[i] = "\\" \/ s[i] = "\n" THEN 0
    ELSE IF s[i] = "\"" THEN i
    ELSE StringEnd(s, i + 1)

RECURSIVE DigitsEnd(_, _)
DigitsEnd(s, i) == IF i <= Len(s) /\ IsDigit(s[i]) THEN DigitsEnd(s, i + 1) ELSE i

RECURSIVE DigitsValue(_, _, _)
DigitsValue(s, i, j) ==
    IF j < i THEN 0 ELSE DigitsValue(s, i, j - 1) * 10 + DigitValue(s[j])

\* An integer at i: an optional minus, then digits with no leading zero.
JsonNumber(s, i) ==
    LET neg == s[i] = "-"
        b == IF neg THEN i + 1 ELSE i
        e == DigitsEnd(s, b)
    IN  IF e = b \/ (e > b + 1 /\ s[b] = "0") THEN JsonFail
        ELSE IF e <= Len(s) /\ s[e] \in {".", "e", "E"} THEN JsonFail
        ELSE JsonOk(PyInt(IF neg THEN -DigitsValue(s, b, e - 1)
                          ELSE DigitsValue(s, b, e - 1)), e)

JsonString(s, i) ==
    LET e == StringEnd(s, i + 1)
    IN  IF e = 0 THEN JsonFail ELSE JsonOk(PyStr(SubSeq(s, i + 1, e - 1)), e + 1)

RECURSIVE JsonValue(_, _)
RECURSIVE JsonArrayItems(_, _, _)
RECURSIVE JsonObjectPairs(_, _, _)

\* The items of an array after "[" or ",": a value, then "," or "]".
JsonArrayItems(s, i, acc) ==
    LET r == JsonValue(s, i)
        j == SkipWs(s, r.i)
    IN  IF ~r.ok \/ j > Len(s) THEN JsonFail
        ELSE IF s[j] = "," THEN JsonArrayItems(s, j + 1, Append(acc, r.v))
        ELSE IF s[j] = "]" THEN JsonOk(PyList(Append(acc, r.v)), j + 1)
        ELSE JsonFail

\* The pairs of an object after "{" or ",": "key": value, then "," or "}".
\* A key that is given twice keeps its last value.
JsonObjectPairs(s, i, acc) ==
    LET k == SkipWs(s, i)
        key == IF k <= Len(s) /\ s[k] = "\"" THEN JsonString(s, k) ELSE JsonFail
        c == IF key.ok THEN SkipWs(s, key.i) ELSE 0
        r == IF key.ok /\ c <= Len(s) /\ s[c] = ":" THEN JsonValue(s, c + 1)
             ELSE JsonFail
        j == IF r.ok THEN SkipWs(s, r.i) ELSE 0
        m == IF r.ok THEN (key.v.s :> r.v) @@ acc ELSE acc
    IN  IF ~r.ok \/ j > Len(s) THEN JsonFail
        ELSE IF s[j] = "," THEN JsonObjectPairs(s, j + 1, m)
        ELSE IF s[j] = "}" THEN JsonOk(PyDict(m), j + 1)
        ELSE JsonFail

JsonValue(s, i) ==
    LET j == SkipWs(s, i)
    IN  IF j > Len(s) THEN JsonFail
        ELSE IF HasWord(s, j, <<"n", "u", "l", "l">>) THEN JsonOk(PyNone, j + 4)
        ELSE IF HasWord(s, j, <<"t", "r", "u", "e">>) THEN JsonOk(PyBool(TRUE), j + 4)
        ELSE IF HasWord(s, j, <<"f", "a", "l", "s", "e">>)
             THEN JsonOk(PyBool(FALSE), j + 5)
        ELSE IF s[j] = "\"" THEN JsonString(s, j)
        ELSE IF s[j] = "-" \/ IsDigit(s[j]) THEN JsonNumber(s, j)
        ELSE IF s[j] = "["
             THEN LET k == SkipWs(s, j + 1)
                  IN  IF k <= Len(s) /\ s[k] = "]" THEN JsonOk(PyList(<<>>), k + 1)
                      ELSE JsonArrayItems(s, j + 1, <<>>)
        ELSE IF s[j] = "{"
             THEN LET k == SkipWs(s, j + 1)
                  IN  IF k <= Len(s) /\ s[k] = "}" THEN JsonOk(PyDict(EmptyMap), k + 1)
                      ELSE JsonObjectPairs(s, j + 1, EmptyMap)
        ELSE JsonFail

\* json.loads(content): one value and nothing after it, or a JSONDecodeError.
json_loads(content) ==
    LET r == JsonValue(content, 1)
    IN  IF r.ok /\ SkipWs(content, r.i) > Len(content)
        THEN [ok |-> TRUE, v |-> r.v]
        ELSE [ok |-> FALSE, v |-> PyNone]

\* ------------------------------------------------------------ csv.reader

\* The reader's state between two characters: the automaton's state, the field
\* being read, the fields of the record being read, and the finished records.
CsvStart == [state |-> "START_RECORD", field |-> <<>>, fields |-> <<>>, out |-> <<>>]

CsvSaveField(st, next) ==
    [st EXCEPT !.state = next, !.fields = Append(st.fields, st.field), !.field = <<>>]

CsvAddChar(st, c, next) ==
    [st EXCEPT !.state = next, !.field = Append(st.field, c)]

\* One character of a line.  The dialect is unix_dialect with skipinitialspace:
\* delimiter ",", quotechar '"', doublequote, not strict.
CsvChar(st, c) ==
    CASE st.state \in {"START_RECORD", "START_FIELD"} ->
            IF c = "\n" THEN
                IF st.state = "START_RECORD" THEN [st EXCEPT !.state = "EAT_CRNL"]
                ELSE CsvSaveField(st, "EAT_CRNL")
            ELSE IF c = "\"" THEN [st EXCEPT !.state = "IN_QUOTED_FIELD"]
            ELSE IF c = " " THEN [st EXCEPT !.state = "START_FIELD"]
            ELSE IF c = "," THEN CsvSaveField(st, "START_FIELD")
            ELSE CsvAddChar(st, c, "IN_FIELD")
      [] st.state = "IN_FIELD" ->
            IF c = "\n" THEN CsvSaveField(st, "EAT_CRNL")
            ELSE IF c = "," THEN CsvSaveField(st, "START_FIELD")
            ELSE CsvAddChar(st, c, "IN_FIELD")
      [] st.state = "IN_QUOTED_FIELD" ->
            IF c = "\"" THEN [st EXCEPT !.state = "QUOTE_IN_QUOTED_FIELD"]
            ELSE CsvAddChar(st, c, "IN_QUOTED_FIELD")
      [] st.state = "QUOTE_IN_QUOTED_FIELD" ->
            IF c = "\"" THEN CsvAddChar(st, c, "IN_QUOTED_FIELD")
            ELSE IF c = "," THEN CsvSaveField(st, "START_FIELD")
            ELSE IF c = "\n" THEN CsvSaveField(st, "EAT_CRNL")
            ELSE CsvAddChar(st, c, "IN_FIELD")
      [] st.state = "EAT_CRNL" -> st

\* The end of a line: a record that is complete is returned.
CsvEndOfLine(st) ==
    LET s2 == CASE st.state \in {"START_FIELD", "IN_FIELD", "QUOTE_IN_QUOTED_FIELD"} ->
                      CsvSaveField(st, "START_RECORD")
                [] st.state = "EAT_CRNL" -> [st EXCEPT !.state = "START_RECORD"]
                [] OTHER -> st
    IN  IF s2.state = "START_RECORD"
        THEN [s2 EXCEPT !.out = Append(s2.out, s2.fields), !.fields = <<>>]
        ELSE s2

\* The end of the input: a record cut short inside a quoted field is returned.
CsvEndOfInput(st) ==
    IF st.state = "IN_QUOTED_FIELD"
    THEN Append(st.out, Append(st.fields, st.field))
    ELSE st.out

RECURSIVE CsvRun(_, _, _)
CsvRun(content, i, st) ==
    IF i > Len(content)
    THEN CsvEndOfInput(IF i > 1 /\ content[i - 1] # "\n" THEN CsvEndOfLine(st) ELSE st)
    ELSE LET s2 == CsvChar(st, content[i])
         IN  CsvRun(content, i + 1, IF content[i] = "\n" THEN CsvEndOfLine(s2) ELSE s2)

\* The records csv.reader yields for the content, each a sequence of texts.
csv_reader(content) == CsvRun(content, 1, CsvStart)

\* ------------------------------------------------------------ csv.DictReader

\* dict(zip(fieldnames, row)): of two equal names the later field wins.
RECURSIVE ZipDict(_, _, _)
ZipDict(names, row, n) ==
    IF n = 0 THEN EmptyMap
    ELSE (names[n] :> PyStr(row[n])) @@ ZipDict(names, row, n - 1)

Min(a, b) == IF a < b THEN a ELSE b

Max(a, b) == IF a > b THEN a ELSE b

\* One row: the fields beyond the header go under the key None (restkey) as
\* a list, the names beyond the row's fields get None (restval).
DictReaderRow(names, row) ==
    LET lf == Len(names)
        lr == Len(row)
        d == ZipDict(names, row, Min(lf, lr))
    IN  PyDict(IF lf < lr
               THEN (NoneKey :> PyList([i \in 1..(lr - lf) |-> PyStr(row[lf + i])])) @@ d
               ELSE [k \in {names[i] : i \in (lr + 1)..lf} |-> PyNone] @@ d)

\* fieldnames: the first record, or None when the reader yields nothing.
DictReaderFieldnames(records) ==
    IF records = <<>> THEN PyNone ELSE PyList(records[1])

\* list(DictReader): the records after the first, the empty ones skipped.
DictReaderRows(records) ==
    LET rest == SelectSeq(Tail(records), LAMBDA r : r # <<>>)
    IN  PyList([i \in 1..Len(rest) |-> DictReaderRow(records[1], rest[i])])

\* ------------------------------------------------------------ parse_data

\* The characters of the inputs in code-point order, which is the order in
\* which Python compares two str.
CodePoints ==
    <<"\n", " ", "\"", "'", ",", "-", "0", "1", "2", "3", "4", "5", "6", "7", "8",
      "9", ":", "[", "]", "a", "b", "c", "d", "e", "f", "i", "l", "n", "s", "u",
      "x", "y", "z", "{", "}">>

Ord(c) == CHOOSE k \in 1..Len(CodePoints) : CodePoints[k] = c

RECURSIVE StrLess(_, _)
StrLess(a, b) ==
    IF b = <<>> THEN FALSE
    ELSE IF a = <<>> THEN TRUE
    ELSE IF a[1] = b[1] THEN StrLess(Tail(a), Tail(b))
    ELSE Ord(a[1]) < Ord(b[1])

\* A mutant of SortedList: the names in descending order.
RECURSIVE SortedList_Descending(_)
SortedList_Descending(S) ==
    IF S = {} THEN <<>>
    ELSE LET m == CHOOSE x \in S : \A y \in S \ {x} : StrLess(y, x)
         IN  <<m>> \o SortedList_Descending(S \ {m})

\* list(cols) followed by cols.sort(): the names of the set in ascending order.
RECURSIVE SortedList(_)
SortedList(S) ==
    IF S = {} THEN <<>>
    ELSE LET m == CHOOSE x \in S : \A y \in S \ {x} : StrLess(x, y)
         IN  <<m>> \o SortedList(S \ {m})

\* What "for row in data" goes through: the items of a list, the keys of a
\* dict, the characters of a str.
IterItems(v) ==
    CASE v.t = "list" -> v.items
      [] v.t = "dict" -> [i \in 1..Cardinality(DOMAIN v.m) |-> PyStr(<<>>)]
      [] v.t = "str" -> [i \in 1..Len(v.s) |-> PyStr(<<v.s[i]>>)]
      [] OTHER -> <<>>

\* Whether the loop "for row in data: cols.update(row.keys())" ends without an
\* exception: data can be iterated and each item is a dict.
KeysLoopOk(v) ==
    /\ v.t \in {"list", "dict", "str"}
    /\ \A i \in 1..Len(IterItems(v)) : IterItems(v)[i].t = "dict"

\* The except branch: the content read as delimited text.
ParseCsv(content) ==
    LET records == csv_reader(content)
    IN  [cols |-> DictReaderFieldnames(records),
         data |-> IF records = <<>> THEN PyList(<<>>) ELSE DictReaderRows(records)]

\* A mutant of ParseJson: the keys are gathered in a list, row after row, and
\* never collected into a set.
ParseJson_ListOfKeys(v) ==
    LET rows == IterItems(v)
        keys[n \in 0..Len(rows)] ==
            IF n = 0 THEN <<>> ELSE keys[n - 1] \o SortedList(DOMAIN rows[n].m)
    IN  [cols |-> PyList(keys[Len(rows)]), data |-> v]

\* The try branch: the columns are the sorted union of the keys of the rows.
ParseJson(v) ==
    LET rows == IterItems(v)
    IN  [cols |-> PyList(SortedList(UNION {DOMAIN rows[i].m : i \in 1..Len(rows)})),
         data |-> v]

parse_data(content) ==
    LET r == json_loads(content)
    IN  IF r.ok /\ KeysLoopOk(r.v) THEN ParseJson(r.v) ELSE ParseCsv(content)

\* ------------------------------------------------------------ print_table

Sep == <<" ", "|", " ">>

Repeat(c, n) == [i \in 1..n |-> c]

\* value[:n] for a text and any integer n.
Slice(text, n) ==
    IF n >= 0 THEN SubSeq(text, 1, Min(n, Len(text)))
    ELSE SubSeq(text, 1, Max(0, Len(text) + n))

\* source.get(key, default)
DictGet(source, key, default) ==
    IF key \in DOMAIN source.m THEN source.m[key] ELSE default

\* A mutant of _extract_value: the default is not used, so that a field that
\* is missing is shown as str(None).
_extract_value_NoDefault(source, key, max_size, default) ==
    Slice(PyStrOf(DictGet(source, key, PyNone)), max_size)

_extract_value(source, key, max_size, default) ==
    LET got == DictGet(source, key, PyStr(default))
        value == IF got.t = "None" THEN PyStr(default) ELSE got
    IN  Slice(PyStrOf(value), max_size)

\* The keys of OrderedDict(fields): the names in order, each once.
RECURSIVE OrderedKeys(_)
OrderedKeys(names) ==
    IF names = <<>> THEN <<>>
    ELSE LET front == OrderedKeys(SubSeq(names, 1, Len(names) - 1))
             last == names[Len(names)]
         IN  IF \E i \in 1..Len(front) : front[i] = last THEN front
             ELSE Append(front, last)

RECURSIVE MaxLen(_, _, _)
MaxLen(entries, field, n) ==
    IF n = 0 THEN 0
    ELSE Max(MaxLen(entries, field, n - 1),
             Len(PyStrOf(DictGet(entries[n], field, PyStr(<<>>)))))

\* col_sizes[field]: the longest of the label and the values, at most max_cols.
ColSize(entries, field, max_cols) ==
    Min(Max(Len(field), MaxLen(entries, field, Len(entries))), max_cols)

RECURSIVE Sum(_, _)
Sum(f, n) == IF n = 0 THEN 0 ELSE f[n] + Sum(f, n - 1)

\* '{:<w}'.format(text) and, for the header, '{:^w}'.format(text), w >= 0.
Format(text, w, align) ==
    LET pad == Max(0, w - Len(text))
        left == IF align = "^" THEN pad \div 2 ELSE 0
    IN  Repeat(" ", left) \o text \o Repeat(" ", pad - left)

\* print_table(entries, fields): the lines printed, or the exception raised
\* by the first format() when a column's size is negative.
print_table(entries, names, max_cols) ==
    LET fields == OrderedKeys(names)
        n == Len(fields)
        sizes == [k \in 1..n |-> ColSize(entries, fields[k], max_cols)]
        width == Sum(sizes, n) + (n - 1) * Len(Sep)
        header == JoinTexts([k \in 1..n |-> Format(Slice(fields[k], max_cols),
                                                    sizes[k], "^")], Sep)
        row(e) == JoinTexts([k \in 1..n |->
                      Format(_extract_value(e, fields[k], max_cols, <<>>),
                             sizes[k], "<")], Sep)
    IN  IF \E k \in 1..n : sizes[k] < 0
        THEN [error |-> "ValueError", col_sizes |-> sizes, lines |-> <<>>]
        ELSE [error |-> "", col_sizes |-> sizes,
              lines |-> <<header, Repeat("-", Max(0, width))>>
                        \o [i \in 1..Len(entries) |-> row(entries[i])]]

\* ------------------------------------------------------------ TempDB

\* A statement of the query language, as the engine reads it:
\*   [t |-> "select", items |-> <<item, ...>>]   SELECT item, ... FROM data
\*        an item is [e |-> "star"] or [e |-> "col", col |-> name, as |-> name]
\*   [t |-> "count", as |-> name]                SELECT COUNT(*) AS name FROM data
\*   [t |-> "delete"]                            DELETE FROM data
\*   [t |-> "bad"]                               text that is no statement
Star == [e |-> "star"]

Col(name, as) == [e |-> "col", col |-> name, as |-> as]

_escape(v) == <<"\"">> \o SelectSeq(v, LAMBDA c : c # "\"") \o <<"\"">>

\* The name the engine reads from a double-quoted identifier.
Identifier(quoted) == SubSeq(quoted, 2, Len(quoted) - 1)

HasDuplicate(names) ==
    \E i, j \in 1..Len(names) : i < j /\ names[i] = names[j]

\* CREATE TABLE data (<each column> TEXT): the new table's column names, or
\* the exception raised.
_make_table(columns) ==
    IF columns.t = "None" THEN [error |-> "TypeError", names |-> <<>>]
    ELSE LET names == [k \in 1..Len(columns.items) |->
                          Identifier(_escape(columns.items[k]))]
         IN  IF names = <<>> \/ HasDuplicate(names)
             THEN [error |-> "OperationalError", names |-> <<>>]
             ELSE [error |-> "", names |-> names]

\* Whether the engine can bind the value as a parameter.
Bindable(v) == v.t \in {"None", "bool", "int", "str"}

\* The value a TEXT column stores for a bound parameter.
StoredText(v) ==
    CASE v.t = "None" -> PyNone
      [] v.t = "bool" -> PyStr(IF v.b THEN <<"1">> ELSE <<"0">>)
      [] v.t = "int" -> PyStr(IntText(v.n))
      [] v.t = "str" -> v

\* INSERT INTO data: one stored row per record, the fields a record lacks
\* bound as None; or the exception raised.
_insert_data(records, columns) ==
    LET rows == IterItems(records)
        flattened_rows == [i \in 1..Len(rows) |->
                              [k \in 1..Len(columns.items) |->
                                  DictGet(rows[i], columns.items[k], PyNone)]]
        bad == {i \in 1..Len(rows) : \E k \in 1..Len(columns.items) :
                   ~Bindable(flattened_rows[i][k])}
        done == IF bad = {} THEN Len(rows)
                ELSE (CHOOSE i \in bad : \A j \in bad : i <= j) - 1
    IN  [error |-> IF bad = {} THEN "" ELSE "ProgrammingError",
         rows |-> [i \in 1..done |->
                      [k \in 1..Len(columns.items) |-> StoredText(flattened_rows[i][k])]]]

IndexOf(names, name) == CHOOSE k \in 1..Len(names) : names[k] = name

\* The items of a SELECT with each * replaced by the table's columns.
RECURSIVE Expand(_, _)
Expand(items, names) ==
    IF items = <<>> THEN <<>>
    ELSE (IF items[1].e = "star" THEN [k \in 1..Len(names) |-> Col(names[k], names[k])]
          ELSE <<items[1]>>) \o Expand(Tail(items), names)

\* cursor.execute(statement) on the table: the description (None when the
\* statement returns no rows) and the result rows, or the exception raised.
Execute(statement, table) ==
    CASE statement.t = "select" ->
            LET items == Expand(statement.items, table.names)
                n == Len(items)
            IN  IF \E k \in 1..n : \A c \in 1..Len(table.names) :
                       table.names[c] # items[k].col
                THEN [error |-> "OperationalError", description |-> PyNone, rows |-> <<>>]
                ELSE [error |-> "",
                      description |-> PyList([k \in 1..n |-> items[k].as]),
                      rows |-> [i \in 1..Len(table.rows) |-> [k \in 1..n |->
                                  table.rows[i][IndexOf(table.names, items[k].col)]]]]
      [] statement.t = "count" ->
            [error |-> "", description |-> PyList(<<statement.as>>),
             rows |-> <<<<PyInt(Len(table.rows))>>>>]
      [] statement.t = "delete" ->
            [error |-> "", description |-> PyNone, rows |-> <<>>]
      [] OTHER ->
            [error |-> "OperationalError", description |-> PyNone, rows |-> <<>>]

\* row_factory(cursor, row): the row as a dict keyed by the description's
\* names; of two equal names the later value is kept.
RECURSIVE row_factory(_, _, _)
row_factory(description, row, n) ==
    IF n = 0 THEN EmptyMap
    ELSE (description.items[n] :> row[n]) @@ row_factory(description, row, n - 1)

\* A mutant of TempDB_query: the columns returned are the table's, not those
\* of the result.
TempDB_query_TableColumns(statement, table) ==
    LET r == Execute(statement, table)
    IN  IF r.error # "" THEN [error |-> r.error, cols |-> PyNone, data |-> PyNone, cursor |-> r]
        ELSE IF r.description.t = "None"
        THEN [error |-> "TypeError", cols |-> PyNone, data |-> PyNone, cursor |-> r]
        ELSE [error |-> "", cols |-> PyList(table.names),
              data |-> PyList([i \in 1..Len(r.rows) |->
                          PyDict(row_factory(r.description, r.rows[i],
                                             Len(r.description.items)))]),
              cursor |-> r]

\* TempDB.query(statement): execute, fetchall through row_factory, and the
\* names of cursor.description (a TypeError when the description is None).
TempDB_query(statement, table) ==
    LET r == Execute(statement, table)
    IN  IF r.error # "" THEN [error |-> r.error, cols |-> PyNone, data |-> PyNone, cursor |-> r]
        ELSE IF r.description.t = "None"
        THEN [error |-> "TypeError", cols |-> PyNone, data |-> PyNone, cursor |-> r]
        ELSE [error |-> "", cols |-> r.description,
              data |-> PyList([i \in 1..Len(r.rows) |->
                          PyDict(row_factory(r.description, r.rows[i],
                                             Len(r.description.items)))]),
              cursor |-> r]

\* ------------------------------------------------------------ inputs

\* the empty input
EmptyInput ==
    <<>>

\* [{"id":"1"},{"id":"2"}]
IdsInput ==
    <<"[", "{", "\"", "i", "d", "\"", ":", "\"", "1", "\"", "}", ",", "{", "\"", "i",
      "d", "\"", ":", "\"", "2", "\"", "}", "]">>

\* [{"x":"ab"},{"x":"abcdef"}]
WidthsInput ==
    <<"[", "{", "\"", "x", "\"", ":", "\"", "a", "b", "\"", "}", ",", "{", "\"", "x",
      "\"", ":", "\"", "a", "b", "c", "d", "e", "f", "\"", "}", "]">>

\* [{"b":1,"a":null},{"c":"abcdef"}]
MixedInput ==
    <<"[", "{", "\"", "b", "\"", ":", "1", ",", "\"", "a", "\"", ":", "n", "u", "l",
      "l", "}", ",", "{", "\"", "c", "\"", ":", "\"", "a", "b", "c", "d", "e", "f",
      "\"", "}", "]">>

\* [{"a":"1"},{"a":[]}]
NestedInput ==
    <<"[", "{", "\"", "a", "\"", ":", "\"", "1", "\"", "}", ",", "{", "\"", "a", "\"",
      ":", "[", "]", "}", "]">>

\* {"a":1}
ObjectInput ==
    <<"{", "\"", "a", "\"", ":", "1", "}">>

\* {}
EmptyObjectInput ==
    <<"{", "}">>

\* "ab"
StringInput ==
    <<"\"", "a", "b", "\"">>

\* ""
EmptyStringInput ==
    <<"\"", "\"">>

\* 5
NumberInput ==
    <<"5">>

\* null
NullInput ==
    <<"n", "u", "l", "l">>

\* [{"a":1},2]
NonObjectItemInput ==
    <<"[", "{", "\"", "a", "\"", ":", "1", "}", ",", "2", "]">>

\* [{"a":1}
MalformedInput ==
    <<"[", "{", "\"", "a", "\"", ":", "1", "}">>

\* a, b\n1\n1,2,3\n
CsvInput ==
    <<"a", ",", " ", "b", "\n", "1", "\n", "1", ",", "2", ",", "3", "\n">>

\* a,a\n1,2\n
CsvDupInput ==
    <<"a", ",", "a", "\n", "1", ",", "2", "\n">>

\* a"b,ab\n1,2\n
CsvQuoteInput ==
    <<"a", "\"", "b", ",", "a", "b", "\n", "1", ",", "2", "\n">>

Samples ==
    {EmptyInput,
     IdsInput,
     WidthsInput,
     MixedInput,
     NestedInput,
     ObjectInput,
     EmptyObjectInput,
     StringInput,
     EmptyStringInput,
     NumberInput,
     NullInput,
     NonObjectItemInput,
     MalformedInput,
     CsvInput,
     CsvDupInput,
     CsvQuoteInput}

\* The longest array of the generated JSON inputs.
MaxRows == 2

GenKeys == {<<"a">>, <<"b">>}

GenValues == {PyNone, PyInt(12)}

GenPairs == GenKeys \X GenValues

\* An object as written: at most two "key": value pairs in any order, a key
\* possibly twice.
GenObjects ==
    {<<>>} \cup {<<p>> : p \in GenPairs} \cup {<<p, q>> : p, q \in GenPairs}

ValueText(v) ==
    CASE v.t = "None" -> <<"n", "u", "l", "l">>
      [] v.t = "str" -> <<"\"">> \o v.s \o <<"\"">>
      [] OTHER -> PyRepr(v)

ObjectText(o) ==
    <<"{">> \o JoinTexts([k \in 1..Len(o) |->
                 <<"\"">> \o o[k][1] \o <<"\"", ":", " ">> \o ValueText(o[k][2])],
                 <<",", " ">>) \o <<"}">>

ArrayText(a) ==
    <<"[">> \o JoinTexts([i \in 1..Len(a) |-> ObjectText(a[i])], <<",", " ">>) \o <<"]">>

\* Every JSON array of at most MaxRows generated objects, as text.
Generated ==
    {ArrayText(a) : a \in UNION {[1..n -> GenObjects] : n \in 0..MaxRows}}

DefaultMaxCols == 100

MaxColsValues == {-1, 0, 2, 4, DefaultMaxCols}

\* -o absent (None), -o with no name, -o with names.
OnlyColumnsValues ==
    {PyNone, PyList(<<>>), PyList(<<<<"a">>>>), PyList(<<<<"b">>, <<"a">>>>),
     PyList(<<<<"a">>, <<"a">>>>), PyList(<<<<"i", "d">>, <<"z">>>>)}

\* -q absent (None), -q '' and statements.
QueryValues ==
    {PyNone, PyStr(<<>>),
     [t |-> "select", items |-> <<Star>>],
     [t |-> "select", items |-> <<Col(<<"a">>, <<"a">>), Col(<<"a">>, <<"a">>)>>],
     [t |-> "select", items |-> <<Col(<<"i", "d">>, <<"x">>), Star>>],
     [t |-> "count", as |-> <<"n">>],
     [t |-> "delete"],
     [t |-> "bad"]}

DefaultArgs == [max_cols |-> DefaultMaxCols, only_columns |-> PyNone, query |-> PyNone]

ArgsValues == [max_cols : MaxColsValues, only_columns : OnlyColumnsValues,
               query : QueryValues]

\* ------------------------------------------------------------ main

VARIABLES
    content,     \* the text read from the data source
    args,        \* the parsed command line
    pc,          \* the statement of main that runs next; "done" or "failed" at the end
    cols,        \* main's cols
    data,        \* main's data
    db,          \* the in-memory database: whether it is open, and its table
    cursor,      \* the description and rows of the last statement executed
    out,         \* the lines printed
    col_sizes,   \* print_table's col_sizes, in the order of its fields
    error,       \* the exception that is propagating, "" when none
    trace        \* the calls made so far

vars == <<content, args, pc, cols, data, db, cursor, out, col_sizes, error, trace>>

NoTable == [open |-> FALSE, names |-> <<>>, rows |-> <<>>]

\* bool(value) for an option's value: None, '' and [] are false.
Truthy(v) ==
    CASE v.t = "None" -> FALSE
      [] v.t = "str" -> v.s # <<>>
      [] v.t = "list" -> v.items # <<>>
      [] OTHER -> TRUE

Init ==
    /\ \/ content \in Samples /\ args \in ArgsValues
       \/ content \in Generated /\ args = DefaultArgs
    /\ pc = "parse_data"
    /\ cols = PyNone
    /\ data = PyNone
    /\ db = NoTable
    /\ cursor = [description |-> PyNone, rows |-> <<>>]
    /\ out = <<>>
    /\ col_sizes = <<>>
    /\ error = ""
    /\ trace = <<>>

\* cols, data = parse_data(args.data_source)
ParseData ==
    /\ pc = "parse_data"
    /\ cols' = parse_data(content).cols
    /\ data' = parse_data(content).data
    /\ pc' = "project"
    /\ trace' = Append(trace, "parse_data")
    /\ UNCHANGED <<content, args, db, cursor, out, col_sizes, error>>

\* A mutant of Project: the detected columns that are named are retained, in
\* the order in which they were detected.
Project_RetainsDetected ==
    /\ pc = "project"
    /\ cols' = IF Truthy(args.only_columns) /\ cols.t = "list"
               THEN PyList(SelectSeq(cols.items, LAMBDA c :
                        \E k \in 1..Len(args.only_columns.items) :
                            args.only_columns.items[k] = c))
               ELSE cols
    /\ pc' = IF Truthy(args.query) THEN "__enter__" ELSE "print_table"
    /\ trace' = Append(trace, "project")
    /\ UNCHANGED <<content, args, data, db, cursor, out, col_sizes, error>>

\* if args.only_columns: cols = args.only_columns; then "if args.query:".
Project ==
    /\ pc = "project"
    /\ cols' = IF Truthy(args.only_columns) THEN args.only_columns ELSE cols
    /\ pc' = IF Truthy(args.query) THEN "__enter__" ELSE "print_table"
    /\ trace' = Append(trace, "project")
    /\ UNCHANGED <<content, args, data, db, cursor, out, col_sizes, error>>

\* db = TempDB(data, cols); with db: -- connect, _make_table, _insert_data.
\* An exception of __enter__ leaves main at once: __exit__ is not called.
Enter ==
    /\ pc = "__enter__"
    /\ LET made == _make_table(cols)
           inserted == IF made.error = "" THEN _insert_data(data, cols)
                       ELSE [error |-> made.error, rows |-> <<>>]
       IN  /\ db' = [open |-> TRUE, names |-> made.names, rows |-> inserted.rows]
           /\ error' = inserted.error
           /\ pc' = IF inserted.error = "" THEN "query" ELSE "failed"
    /\ trace' = Append(trace, "__enter__")
    /\ UNCHANGED <<content, args, cols, data, cursor, out, col_sizes>>

\* cols, data = db.query(args.query), the body of the with statement.
Query ==
    /\ pc = "query"
    /\ LET r == TempDB_query(args.query, db)
       IN  /\ cursor' = [description |-> r.cursor.description, rows |-> r.cursor.rows]
           /\ error' = r.error
           /\ cols' = IF r.error = "" THEN r.cols ELSE cols
           /\ data' = IF r.error = "" THEN r.data ELSE data
    /\ pc' = "__exit__"
    /\ trace' = Append(trace, "query")
    /\ UNCHANGED <<content, args, db, out, col_sizes>>

\* A mutant of Exit: __exit__ returns a true value, which swallows the
\* exception of the body.
Exit_SwallowsException ==
    /\ pc = "__exit__"
    /\ db' = NoTable
    /\ error' = ""
    /\ pc' = "print_table"
    /\ trace' = Append(trace, "__exit__")
    /\ UNCHANGED <<content, args, cols, data, cursor, out, col_sizes>>

\* __exit__: self.db.close(); an exception of the body propagates.
Exit ==
    /\ pc = "__exit__"
    /\ db' = NoTable
    /\ pc' = IF error = "" THEN "print_table" ELSE "failed"
    /\ trace' = Append(trace, "__exit__")
    /\ UNCHANGED <<content, args, cols, data, cursor, out, col_sizes, error>>

\* print_table(data, fields=[(col, col) for col in cols], max_cols=args.max_cols)
PrintTable ==
    /\ pc = "print_table"
    /\ LET r == IF cols.t = "None"
                THEN [error |-> "TypeError", col_sizes |-> <<>>, lines |-> <<>>]
                ELSE print_table(IterItems(data), cols.items, args.max_cols)
       IN  /\ out' = out \o r.lines
           /\ col_sizes' = r.col_sizes
           /\ error' = r.error
           /\ pc' = IF r.error = "" THEN "done" ELSE "failed"
    /\ trace' = Append(trace, "print_table")
    /\ UNCHANGED <<content, args, cols, data, db, cursor>>

Next == ParseData \/ Project \/ Enter \/ Query \/ Exit \/ PrintTable

Spec == Init /\ [][Next]_vars

\* The exit status of the process, once it has ended.
ExitStatus == IF pc = "done" THEN 0 ELSE 1

\* ------------------------------------------------------------ properties

\* Whether the content is a JSON array whose items are all objects.
IsArrayOfObjects(c) ==
    LET r == json_loads(c)
    IN  /\ r.ok
        /\ r.v.t = "list"
        /\ \A i \in 1..Len(r.v.items) : r.v.items[i].t = "dict"

IsPrefix(s, t) == Len(s) <= Len(t) /\ s = SubSeq(t, 1, Len(s))

AfterParse == trace = <<"parse_data">>

AfterProject == trace = <<"parse_data", "project">>

WithQuery == <<"parse_data", "project", "__enter__", "query", "__exit__", "print_table">>

WithoutQuery == <<"parse_data", "project", "print_table">>

\* The text shown for a field before it is cut to max_cols: the value as a str,
\* the empty text when the row lacks the field or holds None for it.
ShownText(entry, field) ==
    LET got == DictGet(entry, field, PyNone)
    IN  IF got.t = "None" THEN <<>> ELSE PyStrOf(got)

RECURSIVE LongestShown(_, _, _)
LongestShown(entries, field, n) ==
    IF n = 0 THEN 0
    ELSE Max(LongestShown(entries, field, n - 1), Len(ShownText(entries[n], field)))

\* The fields of the table printed, and where the cell of field k begins in a line.
Fields == OrderedKeys(cols.items)

Offset(k) == Sum(col_sizes, k - 1) + (k - 1) * Len(Sep)

Cell(line, k) == SubSeq(line, Offset(k) + 1, Offset(k) + col_sizes[k])

\* C1: the empty input, with no option given, goes through the whole pipeline
\* without an error: parse_data returns no column and no row, and main prints
\* a blank header line and an empty rule line.
C1_EmptyInputRenders ==
    (content = EmptyInput /\ args = DefaultArgs) =>
        /\ pc # "failed"
        /\ AfterParse => cols = PyList(<<>>) /\ data = PyList(<<>>)
        /\ pc = "done" => out = << <<>>, <<>> >>

\* C2: for a JSON array of objects, parse_data returns as columns the keys of
\* all the objects, each once, in ascending order, and as rows the objects in
\* the order of the input.
C2_JsonColumnsSortedUnion ==
    (AfterParse /\ IsArrayOfObjects(content)) =>
        LET objects == json_loads(content).v.items
        IN  /\ cols.t = "list"
            /\ \A k \in 1..(Len(cols.items) - 1) :
                   StrLess(cols.items[k], cols.items[k + 1])
            /\ {cols.items[k] : k \in 1..Len(cols.items)}
                   = UNION {DOMAIN objects[i].m : i \in 1..Len(objects)}
            /\ data = PyList(objects)

\* C2 happens: an array of two objects whose keys are not in order is parsed.
C2_Witness ==
    /\ AfterParse
    /\ content = MixedInput
    /\ cols = PyList(<<<<"a">>, <<"b">>, <<"c">>>>)
    /\ Len(data.items) = 2

\* C3: for content that is not a JSON array of objects (malformed JSON, or a
\* JSON value of another shape), parse_data returns the columns and rows of
\* the delimited-text parse of the content.
C3_NonRecordJsonFallsBack ==
    (AfterParse /\ ~IsArrayOfObjects(content)) =>
        /\ cols = ParseCsv(content).cols
        /\ data = ParseCsv(content).data

\* C4: with max_cols >= 0, the width of every column printed is the smaller of
\* max_cols and the longest of the header label and the texts shown for the
\* field, where a field that is absent or None counts as the empty text.
C4_WidthIsLongestShown ==
    (pc = "done" /\ args.max_cols >= 0) =>
        \A k \in 1..Len(Fields) :
            col_sizes[k] = Min(args.max_cols,
                               Max(Len(Fields[k]),
                                   LongestShown(IterItems(data), Fields[k],
                                                Len(IterItems(data)))))

\* C5 as stated: whenever --only-columns is given, with zero or more names,
\* the columns after the projection are the list given, and the rows are those
\* parsed.
C5_OnlyColumnsAlwaysReplace ==
    (AfterProject /\ args.only_columns.t = "list") =>
        /\ cols = args.only_columns
        /\ data = parse_data(content).data

\* C5 amended: when --only-columns is given with at least one name, the
\* columns after the projection are the list given, in its order; when it is
\* given with no name or not given, they are the columns detected; the rows
\* are those parsed in every case.
C5_NamedOnlyColumnsReplace ==
    AfterProject =>
        /\ (args.only_columns.t = "list" /\ args.only_columns.items # <<>>)
               => cols = args.only_columns
        /\ (args.only_columns.t = "None" \/ args.only_columns.items = <<>>)
               => cols = parse_data(content).cols
        /\ data = parse_data(content).data

\* C5 happens: a list of names that differs from the detected columns replaced them.
C5_Witness ==
    /\ AfterProject
    /\ args.only_columns = PyList(<<<<"b">>, <<"a">>>>)
    /\ cols = args.only_columns
    /\ parse_data(content).cols # cols
    /\ Len(IterItems(data)) > 0

\* C6: in every line printed for a row, the cell of a column that the row
\* lacks (or holds None for, as every row of a query result does for a column
\* that no input row has) is blank and as wide as the column, the line being
\* as long as the rule; and print_table raises only for a negative max_cols or
\* when there is no column list at all, never for a field that is missing.
C6_MissingFieldRendersBlank ==
    /\ pc = "done" =>
           \A i \in 1..Len(IterItems(data)) :
               /\ Len(out[i + 2]) = Len(out[2])
               /\ \A k \in 1..Len(Fields) :
                      DictGet(IterItems(data)[i], Fields[k], PyNone) = PyNone
                          => Cell(out[i + 2], k) = Repeat(" ", col_sizes[k])
    /\ (pc = "failed" /\ trace # <<>> /\ trace[Len(trace)] = "print_table")
           => (cols.t = "None" \/ args.max_cols < 0)

\* C6 happens: a table is printed with a column, wider than zero, that was
\* asked for with --only-columns and that no row has.
C6_Witness ==
    /\ pc = "done"
    /\ args.only_columns = PyList(<<<<"i", "d">>, <<"z">>>>)
    /\ Len(IterItems(data)) = 2
    /\ \A i \in 1..2 : <<"z">> \notin DOMAIN IterItems(data)[i].m
    /\ col_sizes = <<2, 1>>
    /\ out[3] = <<"1", " ", " ", "|", " ", " ">>

\* C7: when the query has succeeded, the columns are the names of the result's
\* description in its order, and the rows are the result's rows in its order,
\* each a dict that holds for every column the row's value for it (the last
\* one, for a name the result gives twice); for the rows [{id:1},{id:2}] and
\* SELECT COUNT(*) AS n the columns are [n] and the only row's n is 2.
C7_QueryResultReplacesTable ==
    (pc = "__exit__" /\ error = "") =>
        /\ cols = cursor.description
        /\ data.t = "list"
        /\ Len(data.items) = Len(cursor.rows)
        /\ \A i \in 1..Len(cursor.rows) :
               /\ DOMAIN data.items[i].m = {cols.items[k] : k \in 1..Len(cols.items)}
               /\ \A k \in 1..Len(cols.items) :
                      (\A j \in (k + 1)..Len(cols.items) : cols.items[j] # cols.items[k])
                          => data.items[i].m[cols.items[k]] = cursor.rows[i][k]
        /\ (content = IdsInput /\ ~Truthy(args.only_columns) /\ args.query.t = "count")
               => /\ cols = PyList(<<<<"n">>>>)
                  /\ data = PyList(<<PyDict(<<"n">> :> PyInt(2))>>)

\* C7 happens: the count query has run on the two rows of ids.
C7_Witness ==
    /\ pc = "__exit__"
    /\ error = ""
    /\ content = IdsInput
    /\ args.query.t = "count"
    /\ cols = PyList(<<<<"n">>>>)
    /\ Len(data.items) = 1

\* C8: the calls are made in the order parse, project, query (enter, query,
\* exit), render, each at most once; the table is printed only by a run that
\* ends well and, when a query is given, only after the query has succeeded;
\* a run in which an exception is raised prints nothing and ends failed.
C8_StagesInOrderOnce ==
    /\ IsPrefix(trace, WithQuery) \/ IsPrefix(trace, WithoutQuery)
    /\ IsPrefix(trace, WithQuery) = (Truthy(args.query) \/ Len(trace) <= 2)
    /\ (trace # <<>> /\ trace[Len(trace)] = "print_table" /\ Truthy(args.query))
           => cursor.description.t = "list"
    /\ out # <<>> => pc = "done"
    /\ error # "" => (pc \in {"__exit__", "failed"} /\ out = <<>>)
    /\ pc = "failed" => (error # "" /\ ExitStatus # 0)

\* C8 happens: a run whose query failed has ended, failed, with nothing printed.
C8_Witness ==
    /\ pc = "failed"
    /\ trace = <<"parse_data", "project", "__enter__", "query", "__exit__">>
    /\ error = "OperationalError"
    /\ out = <<>>

\* C9: the database is open only during the query step: it is closed when the
\* program prints and when it has ended, however the query step ended.
C9_StoreOpenOnlyInQueryStep ==
    db.open => pc \in {"query", "__exit__"}

\* C10 as stated: at every stage the column list holds no name twice.
C10_ColumnsAlwaysUnique ==
    cols.t = "list" => ~HasDuplicate(cols.items)

\* C10 amended: after parsing JSON input (the input is read as JSON and its
\* items are objects) the column list holds no name twice.
C10_JsonColumnsUnique ==
    (AfterParse /\ json_loads(content).ok /\ KeysLoopOk(json_loads(content).v)) =>
        /\ cols.t = "list"
        /\ ~HasDuplicate(cols.items)

\* C10 happens: two objects with the same key are parsed into one column.
C10_Witness ==
    /\ AfterParse
    /\ content = WidthsInput
    /\ cols = PyList(<<<<"x">>>>)

====
